---- MODULE Spec2Model ----
(***************************************************************************)
(* The user service of go-sqlite-db: the validation and orchestration      *)
(* layer (internal/service), the SQLite storage adapter                    *)
(* (internal/repository) and the Stripe calls the service makes.           *)
(*                                                                         *)
(* A Go string that the code inspects character by character (nome, email) *)
(* is a sequence of characters; an opaque string (a Stripe id, a status)   *)
(* is a TLA+ string.  A nullable column is a sql.NullString / sql.NullTime *)
(* record [String|Time, Valid].  A *domain.Usuario is a sequence of length *)
(* 0 (nil) or 1.                                                           *)
(***************************************************************************)
EXTENDS Integers, Sequences, FiniteSets, TLC

----------------------------------------------------------------------------
(* Bounds and input sets *)

\* how many rows the AUTOINCREMENT counter may hand out in a run
MaxUsers == 2

\* request inputs
Nomes == {<<>>, <<"n">>}
Emails == {<<>>, <<"a">>, <<"a", "@">>}
UserIDs == 1..(MaxUsers + 1)

\* what Stripe can issue and report
CustomerIDs == {"cus_1", "cus_2"}
SubscriptionIDs == {"sub_1"}
ProviderStatuses == {"active", "canceled"}
PeriodEnds == {1}

----------------------------------------------------------------------------
(* Error values *)

NoErr == "nil"
ErrUsuarioNaoEncontrado == "usuario nao encontrado"
ErrDadosInvalidos == "dados do usuario invalidos"
ErrAssinaturaJaAtiva == "usuario ja possui uma assinatura ativa"
ErrWebhookStripe == "erro ao processar webhook da stripe"
\* an error of the database driver (connection, I/O), of the Stripe API, of
\* json.Unmarshal; a nil-pointer dereference
ErrStore == "driver error"
ErrStripe == "stripe api error"
ErrJSON == "json error"
Panic == "panic: nil pointer dereference"

----------------------------------------------------------------------------
(* domain.Usuario and the usuarios table *)

\* the zero time.Time (year 1), before every Unix time
ZeroTime == -1

Nil == <<>>

NullString == [String |-> "", Valid |-> FALSE]
NullTime == [Time |-> ZeroTime, Valid |-> FALSE]

Str(s) == [String |-> s, Valid |-> TRUE]
Tm(t) == [Time |-> t, Valid |-> TRUE]

Usuario(id, nome, email) ==
    [ID |-> id, Nome |-> nome, Email |-> email,
     StripeCustomerID |-> "", StripeSubscriptionID |-> "",
     SubscriptionStatus |-> "", SubscriptionCurrentPeriodEnd |-> ZeroTime]

\* strings.Contains(s, c) for a one-character c
Contains(s, c) == \E i \in 1..Len(s) : s[i] = c

----------------------------------------------------------------------------
(* Storage adapter: internal/repository/sqlite_repo.go.  db is the usuarios *)
(* table, a function from the ids of its rows to the rows; seq is the       *)
(* AUTOINCREMENT counter; ok says whether the driver executes the statement *)

\* (variant) the status column added without its DEFAULT 'inactive'
NewRow_NoDefault(nome, email) ==
    [nome |-> nome, email |-> email,
     stripe_customer_id |-> NullString,
     stripe_subscription_id |-> NullString,
     subscription_status |-> NullString,
     subscription_current_period_end |-> NullTime]

\* CREATE TABLE usuarios (id, nome, email) and the four columns the migration
\* adds: a row as INSERT INTO usuarios(nome, email) leaves it
NewRow(nome, email) ==
    [nome |-> nome, email |-> email,
     stripe_customer_id |-> NullString,
     stripe_subscription_id |-> NullString,
     subscription_status |-> Str("inactive"),
     subscription_current_period_end |-> NullTime]

\* row.Scan into the Null* variables, then the .String/.Time assignments
ScanRow(id, row) ==
    [ID |-> id, Nome |-> row.nome, Email |-> row.email,
     StripeCustomerID |-> row.stripe_customer_id.String,
     StripeSubscriptionID |-> row.stripe_subscription_id.String,
     SubscriptionStatus |-> row.subscription_status.String,
     SubscriptionCurrentPeriodEnd |-> row.subscription_current_period_end.Time]

\* (variant) a table without AUTOINCREMENT: the new id is one more than the
\* largest id in the table
Create_RowidReused(db, seq, usuario, ok) ==
    IF ~ok
    THEN [id |-> 0, err |-> ErrStore, db |-> db, seq |-> seq]
    ELSE LET new == IF DOMAIN db = {} THEN 1
                    ELSE 1 + CHOOSE i \in DOMAIN db : \A j \in DOMAIN db : j <= i
         IN  [id |-> new, err |-> NoErr,
              db |-> [i \in DOMAIN db \cup {new} |->
                        IF i = new THEN NewRow(usuario.Nome, usuario.Email)
                        ELSE db[i]],
              seq |-> seq + 1]

Create(db, seq, usuario, ok) ==
    IF ~ok
    THEN [id |-> 0, err |-> ErrStore, db |-> db, seq |-> seq]
    ELSE [id |-> seq + 1, err |-> NoErr,
          db |-> [i \in DOMAIN db \cup {seq + 1} |->
                    IF i = seq + 1 THEN NewRow(usuario.Nome, usuario.Email)
                    ELSE db[i]],
          seq |-> seq + 1]

\* the k-th id of the table in rowid order
IdAt(ids, k) == CHOOSE i \in ids : Cardinality({j \in ids : j < i}) = k - 1

GetAll(db, ok) ==
    IF ~ok
    THEN [usuarios |-> <<>>, err |-> ErrStore]
    ELSE [usuarios |-> [k \in 1..Cardinality(DOMAIN db) |->
                          ScanRow(IdAt(DOMAIN db, k), db[IdAt(DOMAIN db, k)])],
          err |-> NoErr]

GetByID(db, id, ok) ==
    IF ~ok THEN [usuario |-> Nil, err |-> ErrStore]
    ELSE IF id \notin DOMAIN db THEN [usuario |-> Nil, err |-> NoErr]
    ELSE [usuario |-> <<ScanRow(id, db[id])>>, err |-> NoErr]

\* (variant) a full-row update: every column is set from the struct
Update_FullRow(db, id, usuario, ok) ==
    IF ~ok THEN [db |-> db, err |-> ErrStore]
    ELSE [db |-> [i \in DOMAIN db |->
                    IF i = id
                    THEN [nome |-> usuario.Nome, email |-> usuario.Email,
                          stripe_customer_id |-> Str(usuario.StripeCustomerID),
                          stripe_subscription_id |-> Str(usuario.StripeSubscriptionID),
                          subscription_status |-> Str(usuario.SubscriptionStatus),
                          subscription_current_period_end |->
                              Tm(usuario.SubscriptionCurrentPeriodEnd)]
                    ELSE db[i]],
          err |-> NoErr]

\* (variant) an update that also puts the status back to the column default
Update_ResetsStatus(db, id, usuario, ok) ==
    IF ~ok THEN [db |-> db, err |-> ErrStore]
    ELSE [db |-> [i \in DOMAIN db |->
                    IF i = id
                    THEN [db[i] EXCEPT !.nome = usuario.Nome,
                                       !.email = usuario.Email,
                                       !.subscription_status = Str("inactive")]
                    ELSE db[i]],
          err |-> NoErr]

Update(db, id, usuario, ok) ==
    IF ~ok THEN [db |-> db, err |-> ErrStore]
    ELSE [db |-> [i \in DOMAIN db |->
                    IF i = id
                    THEN [db[i] EXCEPT !.nome = usuario.Nome,
                                       !.email = usuario.Email]
                    ELSE db[i]],
          err |-> NoErr]

\* (variant) the DELETE without its WHERE clause
Delete_AllRows(db, id, ok) ==
    IF ~ok THEN [db |-> db, err |-> ErrStore]
    ELSE [db |-> <<>>, err |-> NoErr]

Delete(db, id, ok) ==
    IF ~ok THEN [db |-> db, err |-> ErrStore]
    ELSE [db |-> [i \in DOMAIN db \ {id} |-> db[i]], err |-> NoErr]

\* (variant) the driver's error reported for a statement that was applied
UpdateSubscriptionDetails_FailsAfterWrite(db, id, usuario, ok) ==
    [db |-> [i \in DOMAIN db |->
               IF i = id
               THEN [db[i] EXCEPT
                       !.stripe_customer_id = Str(usuario.StripeCustomerID),
                       !.stripe_subscription_id = Str(usuario.StripeSubscriptionID),
                       !.subscription_status = Str(usuario.SubscriptionStatus),
                       !.subscription_current_period_end =
                           Tm(usuario.SubscriptionCurrentPeriodEnd)]
               ELSE db[i]],
     err |-> IF ok THEN NoErr ELSE ErrStore]

\* (variant) the subscription reference left out of the SET list
UpdateSubscriptionDetails_KeepsSubscriptionID(db, id, usuario, ok) ==
    IF ~ok THEN [db |-> db, err |-> ErrStore]
    ELSE [db |-> [i \in DOMAIN db |->
                    IF i = id
                    THEN [db[i] EXCEPT
                            !.stripe_customer_id = Str(usuario.StripeCustomerID),
                            !.subscription_status = Str(usuario.SubscriptionStatus),
                            !.subscription_current_period_end =
                                Tm(usuario.SubscriptionCurrentPeriodEnd)]
                    ELSE db[i]],
          err |-> NoErr]

\* (variant) the statement without its WHERE clause
UpdateSubscriptionDetails_AllRows(db, id, usuario, ok) ==
    IF ~ok THEN [db |-> db, err |-> ErrStore]
    ELSE [db |-> [i \in DOMAIN db |->
                    [db[i] EXCEPT
                       !.stripe_customer_id = Str(usuario.StripeCustomerID),
                       !.stripe_subscription_id = Str(usuario.StripeSubscriptionID),
                       !.subscription_status = Str(usuario.SubscriptionStatus),
                       !.subscription_current_period_end =
                           Tm(usuario.SubscriptionCurrentPeriodEnd)]],
          err |-> NoErr]

UpdateSubscriptionDetails(db, id, usuario, ok) ==
    IF ~ok THEN [db |-> db, err |-> ErrStore]
    ELSE [db |-> [i \in DOMAIN db |->
                    IF i = id
                    THEN [db[i] EXCEPT
                            !.stripe_customer_id = Str(usuario.StripeCustomerID),
                            !.stripe_subscription_id = Str(usuario.StripeSubscriptionID),
                            !.subscription_status = Str(usuario.SubscriptionStatus),
                            !.subscription_current_period_end =
                                Tm(usuario.SubscriptionCurrentPeriodEnd)]
                    ELSE db[i]],
          err |-> NoErr]

\* WHERE stripe_customer_id = ?: a NULL column equals nothing; QueryRow keeps
\* the first matching row
GetByStripeID(db, stripeID, ok) ==
    LET hits == {i \in DOMAIN db : /\ db[i].stripe_customer_id.Valid
                                   /\ db[i].stripe_customer_id.String = stripeID}
    IN  IF ~ok THEN [usuario |-> Nil, err |-> ErrStore]
        ELSE IF hits = {} THEN [usuario |-> Nil, err |-> NoErr]
        ELSE [usuario |-> <<ScanRow(IdAt(hits, 1), db[IdAt(hits, 1)])>>,
              err |-> NoErr]

----------------------------------------------------------------------------
(* Validation and orchestration: internal/service/service.go.  Every        *)
(* operator returns the error, the result, the table after the call and the *)
(* calls it made to the storage adapter and to Stripe, in order.  f is the  *)
(* position of the storage call the driver fails (0: none fails).           *)

\* (variant) the "@" rule left out, as in UpdateUser
CreateUser_NoAtCheck(db, seq, usuario, f) ==
    IF usuario.Nome = <<>> \/ usuario.Email = <<>>
    THEN [id |-> 0, err |-> ErrDadosInvalidos, db |-> db, seq |-> seq, calls |-> <<>>]
    ELSE LET c == Create(db, seq, usuario, f # 1)
         IN  [id |-> c.id, err |-> c.err, db |-> c.db, seq |-> c.seq,
              calls |-> <<"Create">>]

\* (variant) the name left out of the emptiness test
CreateUser_NameUnchecked(db, seq, usuario, f) ==
    IF usuario.Email = <<>>
    THEN [id |-> 0, err |-> ErrDadosInvalidos, db |-> db, seq |-> seq, calls |-> <<>>]
    ELSE IF ~Contains(usuario.Email, "@")
    THEN [id |-> 0, err |-> ErrDadosInvalidos, db |-> db, seq |-> seq, calls |-> <<>>]
    ELSE LET c == Create(db, seq, usuario, f # 1)
         IN  [id |-> c.id, err |-> c.err, db |-> c.db, seq |-> c.seq,
              calls |-> <<"Create">>]

CreateUser(db, seq, usuario, f) ==
    IF usuario.Nome = <<>> \/ usuario.Email = <<>>
    THEN [id |-> 0, err |-> ErrDadosInvalidos, db |-> db, seq |-> seq, calls |-> <<>>]
    ELSE IF ~Contains(usuario.Email, "@")
    THEN [id |-> 0, err |-> ErrDadosInvalidos, db |-> db, seq |-> seq, calls |-> <<>>]
    ELSE LET c == Create(db, seq, usuario, f # 1)
         IN  [id |-> c.id, err |-> c.err, db |-> c.db, seq |-> c.seq,
              calls |-> <<"Create">>]

\* (variant) a missing row handed on as (nil, nil)
GetUserByID_NilPassedOn(db, id, f) ==
    LET g == GetByID(db, id, f # 1)
    IN  [usuario |-> g.usuario, err |-> g.err, calls |-> <<"GetByID">>]

GetUserByID(db, id, f) ==
    LET g == GetByID(db, id, f # 1)
    IN  IF g.err # NoErr
        THEN [usuario |-> Nil, err |-> g.err, calls |-> <<"GetByID">>]
        ELSE IF g.usuario = Nil
        THEN [usuario |-> Nil, err |-> ErrUsuarioNaoEncontrado, calls |-> <<"GetByID">>]
        ELSE [usuario |-> g.usuario, err |-> NoErr, calls |-> <<"GetByID">>]

GetAllUsers(db, f) ==
    LET g == GetAll(db, f # 1)
    IN  [usuarios |-> g.usuarios, err |-> g.err, calls |-> <<"GetAll">>]

\* (variant) the existence check first, the validation after the write
UpdateUser_ValidatesLate(db, id, usuario, f) ==
    LET g == GetUserByID(db, id, f)
    IN  IF g.err # NoErr
        THEN [err |-> g.err, db |-> db, calls |-> g.calls]
        ELSE LET u == Update(db, id, usuario, f # 2)
             IN  IF u.err # NoErr
                 THEN [err |-> u.err, db |-> u.db, calls |-> g.calls \o <<"Update">>]
                 ELSE IF usuario.Nome = <<>> \/ usuario.Email = <<>>
                 THEN [err |-> ErrDadosInvalidos, db |-> u.db,
                       calls |-> g.calls \o <<"Update">>]
                 ELSE [err |-> NoErr, db |-> u.db, calls |-> g.calls \o <<"Update">>]

UpdateUser(db, id, usuario, f) ==
    IF usuario.Nome = <<>> \/ usuario.Email = <<>>
    THEN [err |-> ErrDadosInvalidos, db |-> db, calls |-> <<>>]
    ELSE LET g == GetUserByID(db, id, f)
         IN  IF g.err # NoErr
             THEN [err |-> g.err, db |-> db, calls |-> g.calls]
             ELSE LET u == Update(db, id, usuario, f # 2)
                  IN  [err |-> u.err, db |-> u.db, calls |-> g.calls \o <<"Update">>]

DeleteUser(db, id, f) ==
    LET g == GetUserByID(db, id, f)
    IN  IF g.err # NoErr
        THEN [err |-> g.err, db |-> db, calls |-> g.calls]
        ELSE LET d == Delete(db, id, f # 2)
             IN  [err |-> d.err, db |-> d.db, calls |-> g.calls \o <<"Delete">>]

\* (variant) no business rule: every user is admitted
AlreadyActive_Never(user) == FALSE

\* (variant) a stored subscription reference also counts as active
AlreadyActive_OrSubscribed(user) ==
    user.SubscriptionStatus = "active" \/ user.StripeSubscriptionID # ""

\* the business rule of CreateCheckoutSession: no new session while the
\* subscription is active
AlreadyActive(user) == user.SubscriptionStatus = "active"

\* (variant) the checkout session requested before the new customer
\* reference is stored
CreateCheckoutSession_SessionBeforeSave(db, userID, f, cust, sess) ==
    LET g == GetByID(db, userID, f # 1)
        stop(e, c) == [url |-> "", err |-> e, db |-> db, created |-> {},
                       calls |-> c, customer |-> ""]
    IN  IF g.err # NoErr THEN stop(g.err, <<"GetByID">>)
        ELSE IF g.usuario = Nil THEN stop(ErrUsuarioNaoEncontrado, <<"GetByID">>)
        ELSE LET user == g.usuario[1] IN
        IF AlreadyActive(user)
        THEN stop(ErrAssinaturaJaAtiva, <<"GetByID">>)
        ELSE IF user.StripeCustomerID = ""
        THEN IF cust.err # NoErr
             THEN stop(cust.err, <<"GetByID", "customer.New">>)
             ELSE IF sess.err # NoErr
             THEN [url |-> "", err |-> sess.err, db |-> db, created |-> {cust.ID},
                   calls |-> <<"GetByID", "customer.New", "session.New">>,
                   customer |-> cust.ID]
             ELSE LET u == UpdateSubscriptionDetails(db, user.ID,
                               [user EXCEPT !.StripeCustomerID = cust.ID], f # 2)
                  IN  [url |-> IF u.err # NoErr THEN "" ELSE sess.URL,
                       err |-> u.err, db |-> u.db, created |-> {cust.ID},
                       calls |-> <<"GetByID", "customer.New", "session.New",
                                   "UpdateSubscriptionDetails">>,
                       customer |-> cust.ID]
        ELSE [url |-> IF sess.err # NoErr THEN "" ELSE sess.URL,
              err |-> sess.err, db |-> db, created |-> {},
              calls |-> <<"GetByID", "session.New">>,
              customer |-> user.StripeCustomerID]

\* cust is what customer.New answers, [ID, err], and sess what session.New
\* answers, [URL, err].  In the result, created is the customers Stripe made
\* and customer the Customer parameter of the session request ("" when no
\* session was requested).
CreateCheckoutSession(db, userID, f, cust, sess) ==
    LET g == GetByID(db, userID, f # 1)
        stop(e, c) == [url |-> "", err |-> e, db |-> db, created |-> {},
                       calls |-> c, customer |-> ""]
    IN  IF g.err # NoErr THEN stop(g.err, <<"GetByID">>)
        ELSE IF g.usuario = Nil THEN stop(ErrUsuarioNaoEncontrado, <<"GetByID">>)
        ELSE LET user == g.usuario[1] IN
        IF AlreadyActive(user)
        THEN stop(ErrAssinaturaJaAtiva, <<"GetByID">>)
        ELSE IF user.StripeCustomerID = ""
        THEN IF cust.err # NoErr
             THEN stop(cust.err, <<"GetByID", "customer.New">>)
             ELSE LET u == UpdateSubscriptionDetails(db, user.ID,
                               [user EXCEPT !.StripeCustomerID = cust.ID], f # 2)
                  IN  IF u.err # NoErr
                      THEN [url |-> "", err |-> u.err, db |-> u.db,
                            created |-> {cust.ID},
                            calls |-> <<"GetByID", "customer.New",
                                        "UpdateSubscriptionDetails">>,
                            customer |-> ""]
                      ELSE [url |-> IF sess.err # NoErr THEN "" ELSE sess.URL,
                            err |-> sess.err, db |-> u.db,
                            created |-> {cust.ID},
                            calls |-> <<"GetByID", "customer.New",
                                        "UpdateSubscriptionDetails",
                                        "session.New">>,
                            customer |-> cust.ID]
        ELSE [url |-> IF sess.err # NoErr THEN "" ELSE sess.URL,
              err |-> sess.err, db |-> db, created |-> {},
              calls |-> <<"GetByID", "session.New">>,
              customer |-> user.StripeCustomerID]

\* (variant) the key of the signature checked, the signed body not compared
ConstructEvent_KeyOnly(payload, signature, secret) ==
    IF signature.key = secret
    THEN [event |-> <<payload>>, err |-> NoErr]
    ELSE [event |-> Nil, err |-> "webhook had no valid signature"]

\* webhook.ConstructEvent: the event of a payload whose signature verifies
\* under the secret of STRIPE_WEBHOOK_SECRET
ConstructEvent(payload, signature, secret) ==
    IF signature.key = secret /\ signature.payload = payload
    THEN [event |-> <<payload>>, err |-> NoErr]
    ELSE [event |-> Nil, err |-> "webhook had no valid signature"]

\* (variant) an event for a customer without a row answered with an error
HandleStripeWebhook_MissingUserIsError(db, payload, signature, secret, f, fetched) ==
    LET ev == ConstructEvent(payload, signature, secret)
        stop(e, c) == [err |-> e, db |-> db, calls |-> c]
    IN  IF ev.err # NoErr THEN stop(ErrWebhookStripe, <<>>)
        ELSE LET event == ev.event[1] IN
        CASE event.Type = "checkout.session.completed" ->
               IF ~event.Raw THEN stop(ErrJSON, <<>>)
               ELSE IF event.Subscription = Nil THEN stop(Panic, <<>>)
               ELSE IF fetched.err # NoErr
               THEN stop(fetched.err, <<"subscription.Get">>)
               ELSE IF event.Customer = Nil
               THEN stop(Panic, <<"subscription.Get">>)
               ELSE LET g == GetByStripeID(db, event.Customer[1].ID, f # 1)
                        c == <<"subscription.Get", "GetByStripeID">>
                    IN  IF g.err # NoErr THEN stop(g.err, c)
                        ELSE IF g.usuario = Nil
                        THEN stop(ErrUsuarioNaoEncontrado, c)
                        ELSE LET user == [g.usuario[1] EXCEPT
                                     !.StripeSubscriptionID = fetched.ID,
                                     !.SubscriptionStatus = fetched.Status,
                                     !.SubscriptionCurrentPeriodEnd =
                                         fetched.CurrentPeriodEnd]
                                 u == UpdateSubscriptionDetails(db, user.ID, user,
                                                                f # 2)
                             IN  [err |-> u.err, db |-> u.db,
                                  calls |-> c \o <<"UpdateSubscriptionDetails">>]
          [] event.Type \in {"customer.subscription.updated",
                             "customer.subscription.deleted"} ->
               IF ~event.Raw THEN stop(ErrJSON, <<>>)
               ELSE IF event.Customer = Nil THEN stop(Panic, <<>>)
               ELSE LET g == GetByStripeID(db, event.Customer[1].ID, f # 1)
                        c == <<"GetByStripeID">>
                    IN  IF g.err # NoErr THEN stop(g.err, c)
                        ELSE IF g.usuario = Nil
                        THEN stop(ErrUsuarioNaoEncontrado, c)
                        ELSE LET user == [g.usuario[1] EXCEPT
                                     !.SubscriptionStatus = event.Status,
                                     !.SubscriptionCurrentPeriodEnd =
                                         event.CurrentPeriodEnd]
                                 u == UpdateSubscriptionDetails(db, user.ID, user,
                                                                f # 2)
                             IN  [err |-> u.err, db |-> u.db,
                                  calls |-> c \o <<"UpdateSubscriptionDetails">>]
          [] OTHER -> stop(NoErr, <<>>)

\* (variant) an event of a type the service does not handle refused
HandleStripeWebhook_UnknownTypeRejected(db, payload, signature, secret, f, fetched) ==
    LET ev == ConstructEvent(payload, signature, secret)
        stop(e, c) == [err |-> e, db |-> db, calls |-> c]
    IN  IF ev.err # NoErr THEN stop(ErrWebhookStripe, <<>>)
        ELSE LET event == ev.event[1] IN
        CASE event.Type = "checkout.session.completed" ->
               IF ~event.Raw THEN stop(ErrJSON, <<>>)
               ELSE IF event.Subscription = Nil THEN stop(Panic, <<>>)
               ELSE IF fetched.err # NoErr
               THEN stop(fetched.err, <<"subscription.Get">>)
               ELSE IF event.Customer = Nil
               THEN stop(Panic, <<"subscription.Get">>)
               ELSE LET g == GetByStripeID(db, event.Customer[1].ID, f # 1)
                        c == <<"subscription.Get", "GetByStripeID">>
                    IN  IF g.err # NoErr \/ g.usuario = Nil THEN stop(g.err, c)
                        ELSE LET user == [g.usuario[1] EXCEPT
                                     !.StripeSubscriptionID = fetched.ID,
                                     !.SubscriptionStatus = fetched.Status,
                                     !.SubscriptionCurrentPeriodEnd =
                                         fetched.CurrentPeriodEnd]
                                 u == UpdateSubscriptionDetails(db, user.ID, user,
                                                                f # 2)
                             IN  [err |-> u.err, db |-> u.db,
                                  calls |-> c \o <<"UpdateSubscriptionDetails">>]
          [] event.Type \in {"customer.subscription.updated",
                             "customer.subscription.deleted"} ->
               IF ~event.Raw THEN stop(ErrJSON, <<>>)
               ELSE IF event.Customer = Nil THEN stop(Panic, <<>>)
               ELSE LET g == GetByStripeID(db, event.Customer[1].ID, f # 1)
                        c == <<"GetByStripeID">>
                    IN  IF g.err # NoErr \/ g.usuario = Nil THEN stop(g.err, c)
                        ELSE LET user == [g.usuario[1] EXCEPT
                                     !.SubscriptionStatus = event.Status,
                                     !.SubscriptionCurrentPeriodEnd =
                                         event.CurrentPeriodEnd]
                                 u == UpdateSubscriptionDetails(db, user.ID, user,
                                                                f # 2)
                             IN  [err |-> u.err, db |-> u.db,
                                  calls |-> c \o <<"UpdateSubscriptionDetails">>]
          [] OTHER -> stop(ErrWebhookStripe, <<>>)

\* A payload is [Type, Raw, Customer, Subscription, Status, CurrentPeriodEnd]:
\* Raw says whether event.Data.Raw unmarshals, Customer and Subscription are
\* the objects' pointers (Nil or <<[ID]>>).  fetched is what subscription.Get
\* answers, [ID, Status, CurrentPeriodEnd, err].
HandleStripeWebhook(db, payload, signature, secret, f, fetched) ==
    LET ev == ConstructEvent(payload, signature, secret)
        stop(e, c) == [err |-> e, db |-> db, calls |-> c]
    IN  IF ev.err # NoErr THEN stop(ErrWebhookStripe, <<>>)
        ELSE LET event == ev.event[1] IN
        CASE event.Type = "checkout.session.completed" ->
               IF ~event.Raw THEN stop(ErrJSON, <<>>)
               ELSE IF event.Subscription = Nil THEN stop(Panic, <<>>)
               ELSE IF fetched.err # NoErr
               THEN stop(fetched.err, <<"subscription.Get">>)
               ELSE IF event.Customer = Nil
               THEN stop(Panic, <<"subscription.Get">>)
               ELSE LET g == GetByStripeID(db, event.Customer[1].ID, f # 1)
                        c == <<"subscription.Get", "GetByStripeID">>
                    IN  IF g.err # NoErr \/ g.usuario = Nil THEN stop(g.err, c)
                        ELSE LET user == [g.usuario[1] EXCEPT
                                     !.StripeSubscriptionID = fetched.ID,
                                     !.SubscriptionStatus = fetched.Status,
                                     !.SubscriptionCurrentPeriodEnd =
                                         fetched.CurrentPeriodEnd]
                                 u == UpdateSubscriptionDetails(db, user.ID, user,
                                                                f # 2)
                             IN  [err |-> u.err, db |-> u.db,
                                  calls |-> c \o <<"UpdateSubscriptionDetails">>]
          [] event.Type \in {"customer.subscription.updated",
                             "customer.subscription.deleted"} ->
               IF ~event.Raw THEN stop(ErrJSON, <<>>)
               ELSE IF event.Customer = Nil THEN stop(Panic, <<>>)
               ELSE LET g == GetByStripeID(db, event.Customer[1].ID, f # 1)
                        c == <<"GetByStripeID">>
                    IN  IF g.err # NoErr \/ g.usuario = Nil THEN stop(g.err, c)
                        ELSE LET user == [g.usuario[1] EXCEPT
                                     !.SubscriptionStatus = event.Status,
                                     !.SubscriptionCurrentPeriodEnd =
                                         event.CurrentPeriodEnd]
                                 u == UpdateSubscriptionDetails(db, user.ID, user,
                                                                f # 2)
                             IN  [err |-> u.err, db |-> u.db,
                                  calls |-> c \o <<"UpdateSubscriptionDetails">>]
          [] OTHER -> stop(NoErr, <<>>)

----------------------------------------------------------------------------
(* The HTTP handlers: what each writes to the response for the outcome r of  *)
(* the service method it called.  A response is [status, body]; an empty     *)
(* body is <<>>.                                                             *)

\* encoding/json on domain.Usuario: the two Stripe references carry json:"-"
MarshalUsuario(u) ==
    [id |-> u.ID, nome |-> u.Nome, email |-> u.Email,
     subscription_status |-> u.SubscriptionStatus,
     subscription_current_period_end |-> u.SubscriptionCurrentPeriodEnd]

respondWithJSON(code, payload) == [status |-> code, body |-> payload]

respondWithError(code, message) == respondWithJSON(code, [error |-> message])

\* w.WriteHeader(code) and nothing else
WriteHeader(code) == [status |-> code, body |-> <<>>]

\* a panic leaves the handler before it has written anything
Aborted == [status |-> 0, body |-> <<>>]

CreateCheckoutSessionHandler(r) ==
    IF r.err # NoErr
    THEN CASE r.err = ErrUsuarioNaoEncontrado -> respondWithError(404, r.err)
           [] r.err = ErrAssinaturaJaAtiva -> respondWithError(409, r.err)
           [] OTHER -> respondWithError(500, "Erro ao criar sessao de checkout")
    ELSE respondWithJSON(200, [checkout_url |-> r.url])

HandleStripeWebhookHandler(r) ==
    IF r.err = Panic THEN Aborted
    ELSE IF r.err # NoErr
    THEN IF r.err = ErrWebhookStripe
         THEN respondWithError(400, "Falha na verificacao da assinatura do webhook")
         ELSE respondWithError(500, "Erro interno ao processar webhook")
    ELSE WriteHeader(200)

\* (variant) the response built from the decoded body, the new id not set
CreateUserHandler_IDNotSet(usuario, r) ==
    IF r.err # NoErr
    THEN IF r.err = ErrDadosInvalidos
         THEN respondWithError(400, r.err)
         ELSE respondWithError(500, "Erro ao criar usuario")
    ELSE respondWithJSON(201, MarshalUsuario(usuario))

CreateUserHandler(usuario, r) ==
    IF r.err # NoErr
    THEN IF r.err = ErrDadosInvalidos
         THEN respondWithError(400, r.err)
         ELSE respondWithError(500, "Erro ao criar usuario")
    ELSE respondWithJSON(201, MarshalUsuario([usuario EXCEPT !.ID = r.id]))

GetAllUsersHandler(r) ==
    IF r.err # NoErr
    THEN respondWithError(500, "Erro ao buscar usuarios")
    ELSE respondWithJSON(200, [i \in 1..Len(r.usuarios) |->
                                   MarshalUsuario(r.usuarios[i])])

GetUserByIDHandler(r) ==
    IF r.err # NoErr
    THEN IF r.err = ErrUsuarioNaoEncontrado
         THEN respondWithError(404, r.err)
         ELSE respondWithError(500, "Erro ao buscar usuario")
    ELSE respondWithJSON(200, IF r.usuario = Nil THEN "null"
                              ELSE MarshalUsuario(r.usuario[1]))

UpdateUserHandler(r) ==
    IF r.err # NoErr
    THEN CASE r.err = ErrUsuarioNaoEncontrado -> respondWithError(404, r.err)
           [] r.err = ErrDadosInvalidos -> respondWithError(400, r.err)
           [] OTHER -> respondWithError(500, "Erro ao atualizar usuario")
    ELSE WriteHeader(204)

DeleteUserHandler(r) ==
    IF r.err # NoErr
    THEN IF r.err = ErrUsuarioNaoEncontrado
         THEN respondWithError(404, r.err)
         ELSE respondWithError(500, "Erro ao deletar usuario")
    ELSE WriteHeader(204)

----------------------------------------------------------------------------
(* The running service: the table, Stripe's customers, and the request in   *)
(* progress: the service method it called, with its arguments and outcome.  *)
(* Requests are served one at a time here; Return ends the request and its  *)
(* locals with it.                                                          *)

VARIABLES
    usuarios,          \* the usuarios table
    before,            \* the table as it was when the request came in
    seq,               \* its AUTOINCREMENT counter
    stripeCustomers,   \* the customer ids Stripe has issued
    op,                \* the service method the request called ("idle": no request)
    arg,               \* its arguments
    err,               \* the error it returned
    ret,               \* its result
    calls,             \* the adapter and Stripe calls it made, in order
    resp,              \* the response: the handler that wrote it, status, body
    procs              \* the requests served at the same time, each with the
                       \* statement it is at and its locals

vars == <<usuarios, before, seq, stripeCustomers, op, arg, err, ret, calls, resp,
          procs>>

\* the requests the server runs side by side
MaxProcs == 2
Procs == 1..MaxProcs

\* a goroutine that serves no request; one that does holds the statement it
\* is at (pc), its method (op) and the method's parameters and locals
Idle == [pc |-> "idle", op |-> "none", id |-> 0, in |-> <<>>, user |-> Nil,
         got |-> <<>>]

\* no response yet
NoResponse == [handler |-> "none", status |-> 0, body |-> <<>>]

\* the response rw, [status, body], written by handler h
Response(h, rw) == [handler |-> h, status |-> rw.status, body |-> rw.body]

\* STRIPE_WEBHOOK_SECRET
WebhookSecret == "whsec_live"

\* what the two Stripe creation calls can answer
CustomerAnswers ==
    {[ID |-> c, err |-> NoErr] : c \in CustomerIDs \ stripeCustomers}
        \cup {[ID |-> "", err |-> ErrStripe]}
SessionAnswers ==
    {[URL |-> "https://checkout.stripe.com/pay", err |-> NoErr],
     [URL |-> "", err |-> ErrStripe]}
SubscriptionAnswers(id) ==
    {[ID |-> id, Status |-> s, CurrentPeriodEnd |-> t, err |-> NoErr] :
        s \in ProviderStatuses, t \in PeriodEnds}
        \cup {[ID |-> "", Status |-> "", CurrentPeriodEnd |-> 0, err |-> ErrStripe]}

\* webhook bodies
Pointers(ids) == {Nil} \cup {<<[ID |-> c]>> : c \in ids}
Payloads ==
    [Type : {"checkout.session.completed"}, Raw : {TRUE},
     Customer : Pointers(CustomerIDs), Subscription : Pointers(SubscriptionIDs),
     Status : {""}, CurrentPeriodEnd : {0}]
    \cup
    [Type : {"customer.subscription.updated", "customer.subscription.deleted"},
     Raw : {TRUE}, Customer : Pointers(CustomerIDs), Subscription : {Nil},
     Status : ProviderStatuses, CurrentPeriodEnd : PeriodEnds]
    \cup
    [Type : {"checkout.session.completed", "customer.subscription.updated",
             "customer.subscription.deleted"},
     Raw : {FALSE}, Customer : {Nil}, Subscription : {Nil},
     Status : {""}, CurrentPeriodEnd : {0}]
    \cup
    [Type : {"invoice.paid"}, Raw : {TRUE}, Customer : {Nil},
     Subscription : {Nil}, Status : {""}, CurrentPeriodEnd : {0}]
\* the Stripe-Signature header: Stripe's, one made with another key, and
\* Stripe's signature of another body
Signatures(payload) ==
    {[key |-> WebhookSecret, payload |-> payload],
     [key |-> "whsec_other", payload |-> payload],
     [key |-> WebhookSecret, payload |-> [payload EXCEPT !.Type = "replayed"]]}

Init ==
    /\ usuarios = <<>>
    /\ before = <<>>
    /\ seq = 0
    /\ stripeCustomers = {}
    /\ op = "idle"
    /\ arg = <<>>
    /\ err = NoErr
    /\ ret = <<>>
    /\ calls = <<>>
    /\ resp = NoResponse
    /\ procs = [p \in Procs |-> Idle]

\* a handler that answers before it calls the service: the path parameter is
\* not a number, the body is not JSON, or the body cannot be read
EarlyReturn(h, rw) ==
    /\ before' = usuarios
    /\ op' = "none"
    /\ arg' = <<>>
    /\ err' = NoErr
    /\ ret' = <<>>
    /\ calls' = <<>>
    /\ resp' = Response(h, rw)
    /\ UNCHANGED <<usuarios, seq, stripeCustomers, procs>>

DoCreateUser ==
    /\ op = "idle"
    /\ \/ \E nome \in Nomes, email \in Emails, f \in 0..1 :
            LET usuario == Usuario(0, nome, email)
                r == CreateUser(usuarios, seq, usuario, f)
            IN  /\ r.seq <= MaxUsers
                /\ before' = usuarios
                /\ usuarios' = r.db
                /\ seq' = r.seq
                /\ op' = "CreateUser"
                /\ arg' = [usuario |-> usuario]
                /\ err' = r.err
                /\ ret' = <<r.id>>
                /\ calls' = r.calls
                /\ resp' = Response("CreateUser", CreateUserHandler(usuario, r))
                /\ UNCHANGED <<stripeCustomers, procs>>
       \/ EarlyReturn("CreateUser",
                      respondWithError(400, "Corpo da requisicao invalido"))

DoGetUserByID ==
    /\ op = "idle"
    /\ \/ \E id \in UserIDs, f \in 0..1 :
            LET r == GetUserByID(usuarios, id, f)
            IN  /\ before' = usuarios
                /\ op' = "GetUserByID"
                /\ arg' = [id |-> id]
                /\ err' = r.err
                /\ ret' = r.usuario
                /\ calls' = r.calls
                /\ resp' = Response("GetUserByID", GetUserByIDHandler(r))
                /\ UNCHANGED <<usuarios, seq, stripeCustomers, procs>>
       \/ EarlyReturn("GetUserByID", respondWithError(400, "ID invalido"))

DoGetAllUsers ==
    /\ op = "idle"
    /\ \E f \in 0..1 :
        LET r == GetAllUsers(usuarios, f)
        IN  /\ before' = usuarios
            /\ op' = "GetAllUsers"
            /\ arg' = <<>>
            /\ err' = r.err
            /\ ret' = r.usuarios
            /\ calls' = r.calls
            /\ resp' = Response("GetAllUsers", GetAllUsersHandler(r))
            /\ UNCHANGED <<usuarios, seq, stripeCustomers, procs>>

DoUpdateUser ==
    /\ op = "idle"
    /\ \/ \E id \in UserIDs, nome \in Nomes, email \in Emails, f \in 0..2 :
            LET usuario == Usuario(0, nome, email)
                r == UpdateUser(usuarios, id, usuario, f)
            IN  /\ usuarios' = r.db
                /\ before' = usuarios
                /\ op' = "UpdateUser"
                /\ arg' = [id |-> id, usuario |-> usuario]
                /\ err' = r.err
                /\ ret' = <<>>
                /\ calls' = r.calls
                /\ resp' = Response("UpdateUser", UpdateUserHandler(r))
                /\ UNCHANGED <<seq, stripeCustomers, procs>>
       \/ \E message \in {"ID invalido", "Corpo da requisicao invalido"} :
            EarlyReturn("UpdateUser", respondWithError(400, message))

DoDeleteUser ==
    /\ op = "idle"
    /\ \/ \E id \in UserIDs, f \in 0..2 :
            LET r == DeleteUser(usuarios, id, f)
            IN  /\ usuarios' = r.db
                /\ before' = usuarios
                /\ op' = "DeleteUser"
                /\ arg' = [id |-> id]
                /\ err' = r.err
                /\ ret' = <<>>
                /\ calls' = r.calls
                /\ resp' = Response("DeleteUser", DeleteUserHandler(r))
                /\ UNCHANGED <<seq, stripeCustomers, procs>>
       \/ EarlyReturn("DeleteUser", respondWithError(400, "ID invalido"))

DoCreateCheckoutSession ==
    /\ op = "idle"
    /\ \/ \E id \in UserIDs, f \in 0..2, cust \in CustomerAnswers,
             sess \in SessionAnswers :
            LET r == CreateCheckoutSession(usuarios, id, f, cust, sess)
            IN  /\ usuarios' = r.db
                /\ before' = usuarios
                /\ stripeCustomers' = stripeCustomers \cup r.created
                /\ op' = "CreateCheckoutSession"
                /\ arg' = [id |-> id]
                /\ err' = r.err
                /\ ret' = <<[url |-> r.url, customer |-> r.customer]>>
                /\ calls' = r.calls
                /\ resp' = Response("CreateCheckoutSession",
                                    CreateCheckoutSessionHandler(r))
                /\ UNCHANGED <<seq, procs>>
       \/ EarlyReturn("CreateCheckoutSession",
                      respondWithError(400, "ID de usuario invalido"))

\* Stripe is asked for a subscription, and the driver for a statement, only
\* by a call that reaches them
DoHandleStripeWebhook ==
    /\ op = "idle"
    /\ \/ \E payload \in Payloads :
          \E signature \in Signatures(payload) :
            LET verified == ConstructEvent(payload, signature, WebhookSecret).err = NoErr
                fetches == /\ verified
                           /\ payload.Type = "checkout.session.completed"
                           /\ payload.Raw
                           /\ payload.Subscription # Nil
            IN
            \E f \in IF verified THEN 0..2 ELSE {0},
               fetched \in IF fetches
                           THEN SubscriptionAnswers(payload.Subscription[1].ID)
                           ELSE {[ID |-> "", Status |-> "", CurrentPeriodEnd |-> 0,
                                  err |-> ErrStripe]} :
              LET r == HandleStripeWebhook(usuarios, payload, signature,
                                           WebhookSecret, f, fetched)
              IN  /\ usuarios' = r.db
                  /\ before' = usuarios
                  /\ op' = "HandleStripeWebhook"
                  /\ arg' = [payload |-> payload, signature |-> signature]
                  /\ err' = r.err
                  /\ ret' = (IF \E i \in 1..Len(r.calls) : r.calls[i] = "subscription.Get"
                             THEN <<fetched>> ELSE <<>>)
                  /\ calls' = r.calls
                  /\ resp' = Response("HandleStripeWebhook",
                                      HandleStripeWebhookHandler(r))
                  /\ UNCHANGED <<seq, stripeCustomers, procs>>
       \/ EarlyReturn("HandleStripeWebhook",
                      respondWithError(503, "Erro ao ler corpo da requisicao"))

Return ==
    /\ op # "idle"
    /\ op' = "idle"
    /\ before' = usuarios
    /\ arg' = <<>>
    /\ err' = NoErr
    /\ ret' = <<>>
    /\ calls' = <<>>
    /\ resp' = NoResponse
    /\ UNCHANGED <<usuarios, seq, stripeCustomers, procs>>

Next ==
    \/ DoCreateUser
    \/ DoGetUserByID
    \/ DoGetAllUsers
    \/ DoUpdateUser
    \/ DoDeleteUser
    \/ DoCreateCheckoutSession
    \/ DoHandleStripeWebhook
    \/ Return

Spec == Init /\ [][Next]_vars

----------------------------------------------------------------------------
(* The server main() starts: the chi router with the routes registered on   *)
(* it.  A path is the sequence of its segments.                             *)

Methods == {"GET", "POST", "PUT", "DELETE"}

\* UsuarioHandler.Routes
Routes ==
    {[method |-> "POST", pattern |-> <<>>, handler |-> "CreateUser"],
     [method |-> "GET", pattern |-> <<>>, handler |-> "GetAllUsers"],
     [method |-> "GET", pattern |-> <<"{id}">>, handler |-> "GetUserByID"],
     [method |-> "PUT", pattern |-> <<"{id}">>, handler |-> "UpdateUser"],
     [method |-> "DELETE", pattern |-> <<"{id}">>, handler |-> "DeleteUser"],
     [method |-> "POST", pattern |-> <<"{id}", "criar-checkout">>,
      handler |-> "CreateCheckoutSession"]}

\* r.Mount(prefix, routes)
Mount(prefix, routes) ==
    {[r EXCEPT !.pattern = prefix \o r.pattern] : r \in routes}

\* r.Handle(pattern, h): every method
Handle(pattern, h) ==
    {[method |-> m, pattern |-> pattern, handler |-> h] : m \in Methods}

\* the router of main
Router ==
    {[method |-> "GET", pattern |-> <<>>, handler |-> "home"],
     [method |-> "GET", pattern |-> <<"swagger", "*">>, handler |-> "swagger"]}
        \cup Handle(<<"metrics">>, "metrics")
        \cup Mount(<<"usuarios">>, Routes)

\* the request Stripe makes to deliver an event: a POST, with the
\* Stripe-Signature header, to the address the account's webhook is set to
StripeDelivery == [method |-> "POST", path |-> <<"webhooks", "stripe">>]

\* the requests that arrive
Requests ==
    {[method |-> m, path |-> r.pattern] : m \in Methods, r \in Router}
        \cup {StripeDelivery}

\* the handler the router finds for a request ("none": no route)
RouteOf(req) ==
    LET found == {r \in Router : r.method = req.method /\ r.pattern = req.path}
    IN  IF found = {} THEN "none" ELSE (CHOOSE r \in found : TRUE).handler

\* some request is routed to handler h
Routed(h) == \E req \in Requests : RouteOf(req) = h

\* a response of the router or of a handler that does not use the service
Answer(req, h, code) ==
    /\ before' = usuarios
    /\ op' = "none"
    /\ arg' = [request |-> req]
    /\ err' = NoErr
    /\ ret' = <<>>
    /\ calls' = <<>>
    /\ resp' = Response(h, WriteHeader(code))
    /\ UNCHANGED <<usuarios, seq, stripeCustomers, procs>>

\* GET /, GET /swagger/* and /metrics
DoStatic ==
    /\ op = "idle"
    /\ \E req \in Requests :
          /\ RouteOf(req) \in {"home", "swagger", "metrics"}
          /\ Answer(req, RouteOf(req), 200)

\* no route for the request: chi answers 405 when the path has routes for
\* other methods, 404 otherwise
DoNotFound ==
    /\ op = "idle"
    /\ \E req \in Requests :
          /\ RouteOf(req) = "none"
          /\ IF \E r \in Router : r.pattern = req.path
             THEN Answer(req, "MethodNotAllowed", 405)
             ELSE Answer(req, "NotFound", 404)

HTTPNext ==
    \/ Routed("CreateUser") /\ DoCreateUser
    \/ Routed("GetAllUsers") /\ DoGetAllUsers
    \/ Routed("GetUserByID") /\ DoGetUserByID
    \/ Routed("UpdateUser") /\ DoUpdateUser
    \/ Routed("DeleteUser") /\ DoDeleteUser
    \/ Routed("CreateCheckoutSession") /\ DoCreateCheckoutSession
    \/ DoStatic
    \/ DoNotFound
    \/ Return

HTTPSpec == Init /\ [][HTTPNext]_vars

----------------------------------------------------------------------------
(* The service under concurrent requests.  net/http runs every request in   *)
(* its own goroutine and no service method opens a transaction, so the      *)
(* methods of different requests interleave between their statements and   *)
(* their calls to Stripe.  A step here is one statement or one Stripe call  *)
(* of one request, together with the local code up to the next one.         *)

\* whether the driver executes the statement of the step
Driver == BOOLEAN

\* the goroutine p goes on with locals rec
Goto(p, rec) ==
    /\ procs' = [procs EXCEPT ![p] = rec]
    /\ UNCHANGED err

\* the method of goroutine p returns e, and the goroutine ends
Returns(p, e) ==
    /\ procs' = [procs EXCEPT ![p] = Idle]
    /\ err' = e

\* a new request is served by the first goroutine that is free
Free(p) ==
    /\ procs[p].pc = "idle"
    /\ \A q \in Procs : q < p => procs[q].pc # "idle"

\* users created while requests overlap
MaxConcUsers == 1

\* the bodies and ids sent while requests overlap
ConcUsuarios ==
    {Usuario(0, <<"n">>, <<"a">>), Usuario(0, <<"n">>, <<"a", "@">>),
     Usuario(0, <<>>, <<"a">>)}
ConcIDs == 1..(MaxConcUsers + 1)

\* the variables of the one-at-a-time server
OneAtATime == <<before, op, arg, ret, calls, resp>>

\* a single INSERT: nothing to interleave with
Conc_CreateUser(p) ==
    /\ Free(p)
    /\ \E usuario \in ConcUsuarios, ok \in Driver :
          LET r == CreateUser(usuarios, seq, usuario, IF ok THEN 0 ELSE 1)
          IN  /\ r.seq <= MaxConcUsers
              /\ usuarios' = r.db
              /\ seq' = r.seq
              /\ Returns(p, r.err)
    /\ UNCHANGED <<stripeCustomers, OneAtATime>>

Conc_GetUserByID(p) ==
    /\ Free(p)
    /\ \E id \in ConcIDs, ok \in Driver :
          Returns(p, GetUserByID(usuarios, id, IF ok THEN 0 ELSE 1).err)
    /\ UNCHANGED <<usuarios, seq, stripeCustomers, OneAtATime>>

Conc_GetAllUsers(p) ==
    /\ Free(p)
    /\ \E ok \in Driver :
          Returns(p, GetAllUsers(usuarios, IF ok THEN 0 ELSE 1).err)
    /\ UNCHANGED <<usuarios, seq, stripeCustomers, OneAtATime>>

\* UpdateUser up to the answer of GetUserByID
UpdateUser_GetUserByID(p) ==
    /\ Free(p)
    /\ \E id \in ConcIDs, usuario \in ConcUsuarios, ok \in Driver :
          LET g == GetUserByID(usuarios, id, IF ok THEN 0 ELSE 1)
          IN  IF usuario.Nome = <<>> \/ usuario.Email = <<>>
              THEN Returns(p, ErrDadosInvalidos)
              ELSE IF g.err # NoErr
              THEN Returns(p, g.err)
              ELSE Goto(p, [Idle EXCEPT !.pc = "UpdateUser.Update",
                                        !.op = "UpdateUser",
                                        !.id = id, !.in = usuario])
    /\ UNCHANGED <<usuarios, seq, stripeCustomers, OneAtATime>>

\* the UPDATE statement, and the return of its error
UpdateUser_Update(p) ==
    /\ procs[p].pc = "UpdateUser.Update"
    /\ \E ok \in Driver :
          LET u == Update(usuarios, procs[p].id, procs[p].in, ok)
          IN  /\ usuarios' = u.db
              /\ Returns(p, u.err)
    /\ UNCHANGED <<seq, stripeCustomers, OneAtATime>>

\* DeleteUser up to the answer of GetUserByID
DeleteUser_GetUserByID(p) ==
    /\ Free(p)
    /\ \E id \in ConcIDs, ok \in Driver :
          LET g == GetUserByID(usuarios, id, IF ok THEN 0 ELSE 1)
          IN  IF g.err # NoErr
              THEN Returns(p, g.err)
              ELSE Goto(p, [Idle EXCEPT !.pc = "DeleteUser.Delete",
                                        !.op = "DeleteUser", !.id = id])
    /\ UNCHANGED <<usuarios, seq, stripeCustomers, OneAtATime>>

\* the DELETE statement, and the return of its error
DeleteUser_Delete(p) ==
    /\ procs[p].pc = "DeleteUser.Delete"
    /\ \E ok \in Driver :
          LET d == Delete(usuarios, procs[p].id, ok)
          IN  /\ usuarios' = d.db
              /\ Returns(p, d.err)
    /\ UNCHANGED <<seq, stripeCustomers, OneAtATime>>

\* CreateCheckoutSession up to the answer of GetByID and the tests on it
CreateCheckoutSession_GetByID(p) ==
    /\ Free(p)
    /\ \E id \in ConcIDs, ok \in Driver :
          LET g == GetByID(usuarios, id, ok)
          IN  IF g.err # NoErr
              THEN Returns(p, g.err)
              ELSE IF g.usuario = Nil
              THEN Returns(p, ErrUsuarioNaoEncontrado)
              ELSE IF AlreadyActive(g.usuario[1])
              THEN Returns(p, ErrAssinaturaJaAtiva)
              ELSE Goto(p, [Idle EXCEPT
                              !.pc = IF g.usuario[1].StripeCustomerID = ""
                                     THEN "CreateCheckoutSession.customer.New"
                                     ELSE "CreateCheckoutSession.session.New",
                              !.op = "CreateCheckoutSession",
                              !.id = id, !.user = g.usuario])
    /\ UNCHANGED <<usuarios, seq, stripeCustomers, OneAtATime>>

\* customer.New, and the assignment of its id to the user read before
CreateCheckoutSession_customerNew(p) ==
    /\ procs[p].pc = "CreateCheckoutSession.customer.New"
    /\ \E cust \in CustomerAnswers :
          IF cust.err # NoErr
          THEN /\ Returns(p, cust.err)
               /\ UNCHANGED stripeCustomers
          ELSE /\ stripeCustomers' = stripeCustomers \cup {cust.ID}
               /\ Goto(p, [procs[p] EXCEPT
                             !.pc = "CreateCheckoutSession.UpdateSubscriptionDetails",
                             !.user = <<[procs[p].user[1] EXCEPT
                                           !.StripeCustomerID = cust.ID]>>,
                             !.got = <<cust.ID>>])
    /\ UNCHANGED <<usuarios, seq, OneAtATime>>

\* the write of the user read before, with the new customer id
CreateCheckoutSession_UpdateSubscriptionDetails(p) ==
    /\ procs[p].pc = "CreateCheckoutSession.UpdateSubscriptionDetails"
    /\ \E ok \in Driver :
          LET user == procs[p].user[1]
              u == UpdateSubscriptionDetails(usuarios, user.ID, user, ok)
          IN  /\ usuarios' = u.db
              /\ IF u.err # NoErr
                 THEN Returns(p, u.err)
                 ELSE Goto(p, [procs[p] EXCEPT
                                 !.pc = "CreateCheckoutSession.session.New"])
    /\ UNCHANGED <<seq, stripeCustomers, OneAtATime>>

\* session.New, and the return of the URL
CreateCheckoutSession_sessionNew(p) ==
    /\ procs[p].pc = "CreateCheckoutSession.session.New"
    /\ \E sess \in SessionAnswers :
          Returns(p, sess.err)
    /\ UNCHANGED <<usuarios, seq, stripeCustomers, OneAtATime>>

\* HandleStripeWebhook from ConstructEvent to its first statement: for
\* "checkout completed" the subscription.Get call, which leaves it before
\* GetByStripeID; for "subscription updated/deleted" the GetByStripeID itself
HandleStripeWebhook_ConstructEvent(p) ==
    /\ Free(p)
    /\ \E payload \in Payloads :
       \E signature \in Signatures(payload) :
          LET ev == ConstructEvent(payload, signature, WebhookSecret)
              R(e) == Returns(p, e)
          IN  IF ev.err # NoErr THEN R(ErrWebhookStripe)
              ELSE LET event == ev.event[1] IN
              CASE event.Type = "checkout.session.completed" ->
                     IF ~event.Raw THEN R(ErrJSON)
                     ELSE IF event.Subscription = Nil THEN R(Panic)
                     ELSE \E fetched \in SubscriptionAnswers(event.Subscription[1].ID) :
                            IF fetched.err # NoErr THEN R(fetched.err)
                            ELSE IF event.Customer = Nil THEN R(Panic)
                            ELSE Goto(p, [Idle EXCEPT
                                            !.pc = "HandleStripeWebhook.GetByStripeID",
                                            !.op = "HandleStripeWebhook",
                                            !.in = event, !.got = <<fetched>>])
                [] event.Type \in {"customer.subscription.updated",
                                   "customer.subscription.deleted"} ->
                     IF ~event.Raw THEN R(ErrJSON)
                     ELSE IF event.Customer = Nil THEN R(Panic)
                     ELSE \E ok \in Driver :
                            LET g == GetByStripeID(usuarios, event.Customer[1].ID, ok)
                            IN  IF g.err # NoErr \/ g.usuario = Nil THEN R(g.err)
                                ELSE Goto(p, [Idle EXCEPT
                                       !.pc = "HandleStripeWebhook.UpdateSubscriptionDetails",
                                       !.op = "HandleStripeWebhook",
                                       !.id = g.usuario[1].ID,
                                       !.user = <<[g.usuario[1] EXCEPT
                                           !.SubscriptionStatus = event.Status,
                                           !.SubscriptionCurrentPeriodEnd =
                                               event.CurrentPeriodEnd]>>])
                [] OTHER -> R(NoErr)
    /\ UNCHANGED <<usuarios, seq, stripeCustomers, OneAtATime>>

\* GetByStripeID of the "checkout completed" case, and the assignments of the
\* fetched subscription to the user it returns
HandleStripeWebhook_GetByStripeID(p) ==
    /\ procs[p].pc = "HandleStripeWebhook.GetByStripeID"
    /\ \E ok \in Driver :
          LET g == GetByStripeID(usuarios, procs[p].in.Customer[1].ID, ok)
              fetched == procs[p].got[1]
          IN  IF g.err # NoErr \/ g.usuario = Nil
              THEN Returns(p, g.err)
              ELSE Goto(p, [Idle EXCEPT
                              !.pc = "HandleStripeWebhook.UpdateSubscriptionDetails",
                              !.op = "HandleStripeWebhook",
                              !.id = g.usuario[1].ID,
                              !.user = <<[g.usuario[1] EXCEPT
                                  !.StripeSubscriptionID = fetched.ID,
                                  !.SubscriptionStatus = fetched.Status,
                                  !.SubscriptionCurrentPeriodEnd =
                                      fetched.CurrentPeriodEnd]>>])
    /\ UNCHANGED <<usuarios, seq, stripeCustomers, OneAtATime>>

\* the write of either case, and the return of its error
HandleStripeWebhook_UpdateSubscriptionDetails(p) ==
    /\ procs[p].pc = "HandleStripeWebhook.UpdateSubscriptionDetails"
    /\ \E ok \in Driver :
          LET user == procs[p].user[1]
              u == UpdateSubscriptionDetails(usuarios, user.ID, user, ok)
          IN  /\ usuarios' = u.db
              /\ Returns(p, u.err)
    /\ UNCHANGED <<seq, stripeCustomers, OneAtATime>>

ConcNext ==
    \E p \in Procs :
        \/ Conc_CreateUser(p)
        \/ Conc_GetUserByID(p)
        \/ Conc_GetAllUsers(p)
        \/ UpdateUser_GetUserByID(p)
        \/ UpdateUser_Update(p)
        \/ DeleteUser_GetUserByID(p)
        \/ DeleteUser_Delete(p)
        \/ CreateCheckoutSession_GetByID(p)
        \/ CreateCheckoutSession_customerNew(p)
        \/ CreateCheckoutSession_UpdateSubscriptionDetails(p)
        \/ CreateCheckoutSession_sessionNew(p)
        \/ HandleStripeWebhook_ConstructEvent(p)
        \/ HandleStripeWebhook_GetByStripeID(p)
        \/ HandleStripeWebhook_UpdateSubscriptionDetails(p)

ConcSpec == Init /\ [][ConcNext]_vars

----------------------------------------------------------------------------
(* Properties.  They are read in the state a request leaves behind: op, arg, *)
(* err, ret and calls describe the call, before and usuarios the table on    *)
(* either side of it.                                                        *)

\* the four columns of a row that hold the subscription
SubscriptionColumns(row) ==
    <<row.stripe_customer_id, row.stripe_subscription_id,
      row.subscription_status, row.subscription_current_period_end>>

\* a text without the character "@"
LacksAt(s) == \A i \in 1..Len(s) : s[i] # "@"

\* the request called the storage adapter's or Stripe's function fn
Called(fn) == \E i \in 1..Len(calls) : calls[i] = fn

\* the error is the driver's, from the request's first storage call: the
\* lookup the method starts with gave no answer
LookupFailed == err = ErrStore /\ Len(calls) = 1

\* C1: createUser and updateUser, given a user whose name or email is empty,
\* return InvalidData for every identifier, call the storage adapter not once
\* (no read, no write) and leave the table as it was.
C1_EmptyFieldsRejected ==
    (/\ op \in {"CreateUser", "UpdateUser"}
     /\ (arg.usuario.Nome = <<>> \/ arg.usuario.Email = <<>>))
    => /\ err = ErrDadosInvalidos
       /\ calls = <<>>
       /\ usuarios = before

\* updateUser was given an empty email for an identifier that has a row
C1_Witness ==
    /\ op = "UpdateUser"
    /\ arg.id \in DOMAIN before
    /\ arg.usuario.Nome # <<>>
    /\ arg.usuario.Email = <<>>
    /\ err = ErrDadosInvalidos

\* C2: createUser, given an email without "@" (name and email may be
\* non-empty), returns InvalidData and inserts no row.
C2_CreateRejectsEmailWithoutAt ==
    (op = "CreateUser" /\ LacksAt(arg.usuario.Email))
    => /\ err = ErrDadosInvalidos
       /\ usuarios = before
       /\ ~Called("Create")

\* createUser was given a name and a non-empty email without "@"
C2_Witness ==
    /\ op = "CreateUser"
    /\ arg.usuario.Nome # <<>>
    /\ arg.usuario.Email # <<>>
    /\ LacksAt(arg.usuario.Email)
    /\ err = ErrDadosInvalidos

\* C3: updateUser on an identifier that has a row rejects a user with
\* InvalidData exactly when createUser rejects that user with InvalidData.
C3_UpdateValidatesAsCreate ==
    (op = "UpdateUser" /\ arg.id \in DOMAIN before)
    => ((err = ErrDadosInvalidos)
        <=> (CreateUser(before, seq, arg.usuario, 0).err = ErrDadosInvalidos))

\* C4: no stored row has an empty name or an empty email.
C4_NoEmptyNameOrEmailStored ==
    \A i \in DOMAIN usuarios :
        usuarios[i].nome # <<>> /\ usuarios[i].email # <<>>

\* updateUser has rewritten the name and email of a row
C4_Witness ==
    /\ op = "UpdateUser"
    /\ err = NoErr
    /\ arg.id \in DOMAIN usuarios
    /\ usuarios[arg.id].email # before[arg.id].email

\* C5: the email of every stored row contains "@".
C5_StoredEmailsHaveAt ==
    \A i \in DOMAIN usuarios : ~LacksAt(usuarios[i].email)

\* C6: for an identifier with no row (and, for updateUser, a valid name and
\* email), getUserByID, updateUser and deleteUser return UserNotFound when the
\* adapter's lookup answers; they issue no update and no delete statement and
\* leave every row as it was.
C6_MissingRowIsNotFound ==
    (/\ op \in {"GetUserByID", "UpdateUser", "DeleteUser"}
     /\ arg.id \notin DOMAIN before
     /\ op = "UpdateUser" =>
            /\ arg.usuario.Nome # <<>>
            /\ arg.usuario.Email # <<>>
            /\ ~LacksAt(arg.usuario.Email))
    => /\ ~LookupFailed => err = ErrUsuarioNaoEncontrado
       /\ op = "GetUserByID" => ret = Nil
       /\ calls = <<"GetByID">>
       /\ usuarios = before

\* deleteUser was called for an identifier without a row while other rows exist
C6_Witness ==
    /\ op = "DeleteUser"
    /\ arg.id \notin DOMAIN before
    /\ DOMAIN before # {}
    /\ err = ErrUsuarioNaoEncontrado

\* the row a request hands to UpdateSubscriptionDetails: the one of the
\* identifier createCheckoutSession was called with, or the one that holds the
\* event's customer reference
C7_Target ==
    IF op = "CreateCheckoutSession" THEN {arg.id}
    ELSE {i \in DOMAIN before :
            before[i].stripe_customer_id = Str(arg.payload.Customer[1].ID)}

\* every struct a caller could hand to the storage adapter
C7_Structs ==
    [ID : {0}, Nome : Nomes, Email : Emails,
     StripeCustomerID : CustomerIDs \cup {""},
     StripeSubscriptionID : SubscriptionIDs \cup {""},
     SubscriptionStatus : ProviderStatuses \cup {"inactive", ""},
     SubscriptionCurrentPeriodEnd : PeriodEnds \cup {ZeroTime}]

\* C7: a request that runs Update leaves the four subscription columns of
\* every row as they were, a request that runs UpdateSubscriptionDetails leaves
\* the name and email of every row as they were, and either changes at most
\* the row of the identifier it was given.  The same holds of the two adapter
\* functions applied to any table the service can reach, for every identifier
\* and every struct.
C7_UpdatesTouchOnlyTheirColumns ==
    /\ op = "idle" =>
          \A id \in UserIDs, u \in C7_Structs :
            LET a == Update(usuarios, id, u, TRUE).db
                b == UpdateSubscriptionDetails(usuarios, id, u, TRUE).db
            IN  /\ DOMAIN a = DOMAIN usuarios
                /\ DOMAIN b = DOMAIN usuarios
                /\ \A i \in DOMAIN usuarios :
                      /\ SubscriptionColumns(a[i]) = SubscriptionColumns(usuarios[i])
                      /\ b[i].nome = usuarios[i].nome
                      /\ b[i].email = usuarios[i].email
                      /\ i # id => a[i] = usuarios[i] /\ b[i] = usuarios[i]
    /\ Called("Update") =>
          /\ DOMAIN usuarios = DOMAIN before
          /\ \A i \in DOMAIN before :
                /\ SubscriptionColumns(usuarios[i]) = SubscriptionColumns(before[i])
                /\ i # arg.id => usuarios[i] = before[i]
    /\ Called("UpdateSubscriptionDetails") =>
          /\ DOMAIN usuarios = DOMAIN before
          /\ \A i \in DOMAIN before :
                /\ usuarios[i].nome = before[i].nome
                /\ usuarios[i].email = before[i].email
          /\ \A i \in DOMAIN before : i \notin C7_Target => usuarios[i] = before[i]
          /\ Cardinality(C7_Target) <= 1

\* Update has changed the email of a row that holds a subscription, beside
\* another row
C7_Witness ==
    /\ Called("Update")
    /\ err = NoErr
    /\ arg.id \in DOMAIN before
    /\ usuarios[arg.id].email # before[arg.id].email
    /\ before[arg.id].stripe_subscription_id = Str("sub_1")
    /\ before[arg.id].subscription_status = Str("active")
    /\ Cardinality(DOMAIN before) = 2

\* C8: after createUser succeeds for {name, email} and returns id, a
\* getUserByID(id) on the table as createUser left it returns the user with
\* that id, the same name and email, status "inactive" and empty customer and
\* subscription references.
C8_CreateThenReadRoundTrip ==
    (op = "CreateUser" /\ err = NoErr)
    => LET g == GetUserByID(usuarios, ret[1], 0)
       IN  /\ g.err = NoErr
           /\ g.usuario # Nil
           /\ g.usuario[1].ID = ret[1]
           /\ g.usuario[1].Nome = arg.usuario.Nome
           /\ g.usuario[1].Email = arg.usuario.Email
           /\ g.usuario[1].SubscriptionStatus = "inactive"
           /\ g.usuario[1].StripeCustomerID = ""
           /\ g.usuario[1].StripeSubscriptionID = ""

\* createUser has inserted a second row
C8_Witness ==
    /\ op = "CreateUser"
    /\ err = NoErr
    /\ ret = <<2>>
    /\ DOMAIN usuarios = {1, 2}

\* C9: createCheckoutSession for a user whose stored status is "active" makes
\* no call to Stripe (no customer.New, no session.New) and no write to the
\* table, and returns SubscriptionAlreadyActive when the adapter's lookup
\* answers.
C9_ActiveUserGetsNoCheckout ==
    (/\ op = "CreateCheckoutSession"
     /\ arg.id \in DOMAIN before
     /\ before[arg.id].subscription_status = Str("active"))
    => /\ ~LookupFailed => err = ErrAssinaturaJaAtiva
       /\ calls = <<"GetByID">>
       /\ usuarios = before
       /\ ret[1].url = ""

\* createCheckoutSession was refused for an active user
C9_Witness ==
    /\ op = "CreateCheckoutSession"
    /\ arg.id \in DOMAIN before
    /\ before[arg.id].subscription_status = Str("active")
    /\ err = ErrAssinaturaJaAtiva

\* C10: for a user that has a row, createCheckoutSession returns
\* SubscriptionAlreadyActive if and only if the stored status is "active"
\* (given that the adapter's lookup answers); with any other status it goes on
\* to Stripe, whatever subscription reference and period end are stored.
C10_StatusAloneAdmitsCheckout ==
    (/\ op = "CreateCheckoutSession"
     /\ arg.id \in DOMAIN before
     /\ ~LookupFailed)
    => /\ (err = ErrAssinaturaJaAtiva)
              <=> (before[arg.id].subscription_status.String = "active")
       /\ before[arg.id].subscription_status.String # "active"
              => Len(calls) >= 2 /\ calls[2] \in {"customer.New", "session.New"}

\* a checkout session was requested from Stripe for a user whose status is
\* "canceled" and who has a subscription reference and a period end stored
C10_Witness ==
    /\ op = "CreateCheckoutSession"
    /\ arg.id \in DOMAIN before
    /\ before[arg.id].subscription_status = Str("canceled")
    /\ before[arg.id].stripe_subscription_id = Str("sub_1")
    /\ before[arg.id].subscription_current_period_end = Tm(1)
    /\ Called("session.New")
    /\ err = NoErr

\* C11: in createCheckoutSession, when the fetched user has an empty customer
\* reference and the checkout session is requested, customer.New and then the
\* UpdateSubscriptionDetails write of the reference Stripe returned have both
\* happened before, and the session is scoped to that new reference; when the
\* user has a stored reference, there is no customer.New call and no write,
\* and the session is scoped to the stored reference.
C11_CustomerStoredBeforeSession ==
    (op = "CreateCheckoutSession" /\ arg.id \in DOMAIN before)
    => IF before[arg.id].stripe_customer_id.String = ""
       THEN Called("session.New") =>
              /\ calls = <<"GetByID", "customer.New",
                           "UpdateSubscriptionDetails", "session.New">>
              /\ ret[1].customer # ""
              /\ ret[1].customer \in stripeCustomers
              /\ usuarios[arg.id].stripe_customer_id = Str(ret[1].customer)
       ELSE /\ ~Called("customer.New")
            /\ ~Called("UpdateSubscriptionDetails")
            /\ usuarios = before
            /\ Called("session.New") =>
                  ret[1].customer = before[arg.id].stripe_customer_id.String

\* a session was made for a user who had no customer reference, and the one
\* Stripe issued is now stored
C11_Witness ==
    /\ op = "CreateCheckoutSession"
    /\ arg.id \in DOMAIN before
    /\ before[arg.id].stripe_customer_id.String = ""
    /\ Called("session.New")
    /\ err = NoErr
    /\ usuarios[arg.id].stripe_customer_id = Str(ret[1].customer)

\* the Stripe-Signature header of the request is Stripe's signature of the
\* request's body under STRIPE_WEBHOOK_SECRET
SignedWithSecret ==
    arg.signature = [key |-> WebhookSecret, payload |-> arg.payload]

\* the three event types the service acts on
HandledTypes ==
    {"checkout.session.completed", "customer.subscription.updated",
     "customer.subscription.deleted"}

\* the rows that hold the customer reference of the event
EventUsers ==
    IF arg.payload.Customer = Nil THEN {}
    ELSE {i \in DOMAIN before :
            before[i].stripe_customer_id = Str(arg.payload.Customer[1].ID)}

\* C12: for every webhook payload whose signature does not verify under the
\* secret, whatever its event type, handleProviderWebhook returns
\* WebhookVerificationFailed and calls neither the storage adapter (no lookup,
\* no write) nor Stripe.
C12_UnverifiedWebhookTouchesNothing ==
    (op = "HandleStripeWebhook" /\ ~SignedWithSecret)
    => /\ err = ErrWebhookStripe
       /\ calls = <<>>
       /\ ret = <<>>
       /\ usuarios = before

\* a "checkout completed" body for a local user's customer reference came
\* with Stripe's signature of another body
C12_Witness ==
    /\ op = "HandleStripeWebhook"
    /\ arg.signature.key = WebhookSecret
    /\ arg.signature.payload # arg.payload
    /\ arg.payload.Type = "checkout.session.completed"
    /\ arg.payload.Subscription # Nil
    /\ EventUsers # {}
    /\ err = ErrWebhookStripe

\* C13: for a verified "checkout completed", "subscription updated" or
\* "subscription deleted" event whose customer reference no row holds,
\* handleProviderWebhook writes nothing, and returns nil once the adapter's
\* lookup has answered; the lookup is not reached only when Stripe fails the
\* subscription fetch of a "checkout completed" event.
C13_UnknownCustomerIsNoOp ==
    (/\ op = "HandleStripeWebhook"
     /\ SignedWithSecret
     /\ arg.payload.Type \in HandledTypes
     /\ arg.payload.Raw
     /\ arg.payload.Customer # Nil
     /\ arg.payload.Type = "checkout.session.completed"
            => arg.payload.Subscription # Nil
     /\ EventUsers = {})
    => /\ usuarios = before
       /\ ~Called("UpdateSubscriptionDetails")
       /\ IF Called("GetByStripeID")
          THEN err # ErrStore => err = NoErr
          ELSE /\ arg.payload.Type = "checkout.session.completed"
               /\ ret[1].err # NoErr
               /\ err = ret[1].err

\* a "subscription deleted" event named a customer no row holds, while
\* another customer's row exists
C13_Witness ==
    /\ op = "HandleStripeWebhook"
    /\ SignedWithSecret
    /\ arg.payload.Type = "customer.subscription.deleted"
    /\ arg.payload.Customer # Nil
    /\ EventUsers = {}
    /\ \E i \in DOMAIN before : before[i].stripe_customer_id.Valid
    /\ Called("GetByStripeID")
    /\ err = NoErr

\* C14: for every verified event whose type is none of the three,
\* handleProviderWebhook returns nil, calls neither the storage adapter nor
\* Stripe, and leaves the table as it was.
C14_OtherEventsIgnored ==
    (/\ op = "HandleStripeWebhook"
     /\ SignedWithSecret
     /\ arg.payload.Type \notin HandledTypes)
    => /\ err = NoErr
       /\ calls = <<>>
       /\ ret = <<>>
       /\ usuarios = before

\* a verified "invoice.paid" event arrived while a user with a customer
\* reference was stored
C14_Witness ==
    /\ op = "HandleStripeWebhook"
    /\ SignedWithSecret
    /\ arg.payload.Type = "invoice.paid"
    /\ \E i \in DOMAIN before : before[i].stripe_customer_id.Valid
    /\ err = NoErr

\* the subscription of a row as the adapter reads it: the reference, the
\* status and the period end
Subscription(row) ==
    <<row.stripe_subscription_id.String, row.subscription_status.String,
      row.subscription_current_period_end.Time>>

\* C15: after handleProviderWebhook returns nil for a verified "checkout
\* completed" event whose customer reference a row holds, that row's
\* subscription reference, status and period end are those of the
\* subscription Stripe returned for the event's subscription reference, and
\* its customer reference, name and email are as before.
C15_CheckoutCompletedStoresFetched ==
    (/\ op = "HandleStripeWebhook"
     /\ SignedWithSecret
     /\ arg.payload.Type = "checkout.session.completed"
     /\ EventUsers # {}
     /\ err = NoErr)
    => /\ Len(ret) = 1
       /\ ret[1].err = NoErr
       /\ ret[1].ID = arg.payload.Subscription[1].ID
       /\ \A i \in EventUsers :
            /\ i \in DOMAIN usuarios
            /\ usuarios[i].stripe_subscription_id = Str(ret[1].ID)
            /\ usuarios[i].subscription_status = Str(ret[1].Status)
            /\ usuarios[i].subscription_current_period_end =
                   Tm(ret[1].CurrentPeriodEnd)
            /\ usuarios[i].stripe_customer_id = before[i].stripe_customer_id
            /\ usuarios[i].nome = before[i].nome
            /\ usuarios[i].email = before[i].email

\* a "checkout completed" event has made a user without a subscription active
C15_Witness ==
    /\ op = "HandleStripeWebhook"
    /\ SignedWithSecret
    /\ arg.payload.Type = "checkout.session.completed"
    /\ err = NoErr
    /\ \E i \in EventUsers :
          /\ before[i].stripe_subscription_id.String = ""
          /\ before[i].subscription_status = Str("inactive")
          /\ usuarios[i].stripe_subscription_id = Str("sub_1")
          /\ usuarios[i].subscription_status = Str("active")

\* C16: after handleProviderWebhook returns nil for a verified "subscription
\* updated" or "subscription deleted" event whose customer reference a row
\* holds, that row's status and period end are the event's, its customer
\* reference, subscription reference (as the adapter reads it), name and
\* email are as before, and every other row is as before.
C16_SubscriptionEventStoresStatus ==
    (/\ op = "HandleStripeWebhook"
     /\ SignedWithSecret
     /\ arg.payload.Type \in {"customer.subscription.updated",
                              "customer.subscription.deleted"}
     /\ EventUsers # {}
     /\ err = NoErr)
    => /\ DOMAIN usuarios = DOMAIN before
       /\ \A i \in EventUsers :
            /\ usuarios[i].subscription_status = Str(arg.payload.Status)
            /\ usuarios[i].subscription_current_period_end =
                   Tm(arg.payload.CurrentPeriodEnd)
            /\ usuarios[i].stripe_customer_id = before[i].stripe_customer_id
            /\ usuarios[i].stripe_subscription_id.String =
                   before[i].stripe_subscription_id.String
            /\ usuarios[i].nome = before[i].nome
            /\ usuarios[i].email = before[i].email
       /\ \A j \in DOMAIN before \ EventUsers : usuarios[j] = before[j]

\* a "subscription deleted" event has turned an active subscriber's status
\* to "canceled", beside another user's row
C16_Witness ==
    /\ op = "HandleStripeWebhook"
    /\ SignedWithSecret
    /\ arg.payload.Type = "customer.subscription.deleted"
    /\ err = NoErr
    /\ Cardinality(DOMAIN before) = 2
    /\ \E i \in EventUsers :
          /\ before[i].stripe_subscription_id = Str("sub_1")
          /\ before[i].subscription_status = Str("active")
          /\ usuarios[i].subscription_status = Str("canceled")

\* C17: the subscription reference, status and period end of a row, as the
\* adapter reads them, differ across a request only if the request is
\* handleProviderWebhook with a verified event that carries the row's customer
\* reference; createUser, updateUser, createCheckoutSession (and the reads and
\* deleteUser) leave them as they were in every row that was there.
C17_SubscriptionChangesOnlyByWebhook ==
    \A i \in DOMAIN before \cap DOMAIN usuarios :
        Subscription(usuarios[i]) # Subscription(before[i])
        => /\ op = "HandleStripeWebhook"
           /\ SignedWithSecret
           /\ i \in EventUsers

\* a verified event has changed one user's subscription while another user,
\* an active subscriber, kept theirs
C17_Witness ==
    /\ op = "HandleStripeWebhook"
    /\ SignedWithSecret
    /\ \E i \in EventUsers :
          /\ Subscription(usuarios[i]) # Subscription(before[i])
          /\ \E j \in DOMAIN before \ {i} :
                /\ before[j].subscription_status = Str("active")
                /\ usuarios[j] = before[j]

\* the status the request boundary is to give an outcome of the service
StatusOf(e) ==
    CASE e = ErrDadosInvalidos -> {400}
      [] e = ErrUsuarioNaoEncontrado -> {404}
      [] e = ErrAssinaturaJaAtiva -> {409}
      [] e = ErrWebhookStripe -> {400}
      [] e = NoErr -> {200, 201, 204}
      [] OTHER -> {500}

\* C18: whatever handler served the request, the response to an outcome of
\* the service has status 400 for InvalidData, 404 for UserNotFound, 409 for
\* SubscriptionAlreadyActive, 400 for WebhookVerificationFailed, 500 for any
\* other error and a 2xx status for success; a successful getUserByID gives
\* 200 with the user in the body and a successful createUser 201 with the
\* user and the identifier of the new row in the body.
C18_OutcomeToStatus ==
    (op \notin {"idle", "none"} /\ err # Panic)
    => /\ resp.handler = op
       /\ resp.status \in StatusOf(err)
       /\ err # NoErr => DOMAIN resp.body = {"error"}
       /\ (op = "GetUserByID" /\ err = NoErr) =>
             /\ resp.status = 200
             /\ resp.body.id = arg.id
             /\ resp.body.nome = usuarios[arg.id].nome
             /\ resp.body.email = usuarios[arg.id].email
       /\ (op = "CreateUser" /\ err = NoErr) =>
             /\ resp.status = 201
             /\ resp.body.id = ret[1]
             /\ resp.body.id \in DOMAIN usuarios \ DOMAIN before
             /\ resp.body.nome = arg.usuario.Nome
             /\ resp.body.email = arg.usuario.Email

\* createUser has answered 201 for the second row
C18_Witness ==
    /\ op = "CreateUser"
    /\ err = NoErr
    /\ resp.status = 201
    /\ resp.body.id = 2
    /\ DOMAIN before = {1}

\* C19: the HTTP surface wired at start-up has a webhook route: Stripe's POST
\* is dispatched to HandleStripeWebhook.  Read here as: when the router has
\* no route for Stripe's delivery at the address above, it has one to
\* HandleStripeWebhook at some other address.
C19_WebhookRouteWired ==
    (resp.handler = "NotFound" /\ arg.request = StripeDelivery)
    => \E r \in Router : r.handler = "HandleStripeWebhook"

\* C20: identifiers are unique and immutable.  The rows read back carry
\* pairwise different identifiers, each the one it is stored under; the
\* identifier createUser returns is one the table never issued before, and
\* the new row is stored under it beside the rows that were there; no other
\* request adds a row, and updateUser, createCheckoutSession and
\* handleProviderWebhook leave the set of identifiers as it was (deleteUser
\* takes away at most the one it was given).
C20_IdentifiersUniqueAndFixed ==
    /\ DOMAIN usuarios \subseteq 1..seq
    /\ LET all == GetAll(usuarios, TRUE).usuarios
       IN  /\ Len(all) = Cardinality(DOMAIN usuarios)
           /\ \A j, k \in 1..Len(all) : j # k => all[j].ID # all[k].ID
           /\ \A j \in 1..Len(all) :
                 GetByID(usuarios, all[j].ID, TRUE).usuario = <<all[j]>>
    /\ IF op = "CreateUser" /\ err = NoErr
       THEN /\ ret[1] = seq
            /\ DOMAIN before \subseteq 1..(seq - 1)
            /\ DOMAIN usuarios = DOMAIN before \cup {ret[1]}
            /\ \A i \in DOMAIN before : usuarios[i] = before[i]
       ELSE DOMAIN usuarios \subseteq DOMAIN before
    /\ op \in {"UpdateUser", "CreateCheckoutSession", "HandleStripeWebhook"}
          => DOMAIN usuarios = DOMAIN before
    /\ op = "DeleteUser" => DOMAIN before \ DOMAIN usuarios \subseteq {arg.id}

\* createUser has returned 2 for a row made after the row 1 was deleted
C20_Witness ==
    /\ op = "CreateUser"
    /\ err = NoErr
    /\ ret = <<2>>
    /\ before = <<>>
    /\ DOMAIN usuarios = {2}

\* the identifiers whose rows were deleted: AUTOINCREMENT has issued 1..seq,
\* each to a row that was inserted
DeletedIDs == (1..seq) \ DOMAIN before

\* C21: deleteUser on an identifier that has a row ends with nil or with the
\* driver's error; when it ends with nil exactly that row is gone and every
\* other row is as it was.  A later getUserByID, updateUser (with a valid
\* user), deleteUser or createCheckoutSession on the identifier of a deleted
\* row returns UserNotFound when the adapter's lookup answers, and changes
\* nothing.
C21_DeleteRemovesExactlyThatRow ==
    /\ (op = "DeleteUser" /\ arg.id \in DOMAIN before) =>
          /\ err \in {NoErr, ErrStore}
          /\ err = NoErr =>
                /\ DOMAIN usuarios = DOMAIN before \ {arg.id}
                /\ \A i \in DOMAIN usuarios : usuarios[i] = before[i]
          /\ err # NoErr => usuarios = before
    /\ (/\ op \in {"GetUserByID", "UpdateUser", "DeleteUser",
                   "CreateCheckoutSession"}
        /\ arg.id \in DeletedIDs
        /\ op = "UpdateUser" =>
              arg.usuario.Nome # <<>> /\ arg.usuario.Email # <<>>) =>
          /\ ~LookupFailed => err = ErrUsuarioNaoEncontrado
          /\ usuarios = before
          /\ arg.id \notin DOMAIN usuarios

\* deleteUser has removed the first of two rows, the other a subscriber's
C21_Witness ==
    /\ op = "DeleteUser"
    /\ err = NoErr
    /\ arg.id = 1
    /\ DOMAIN before = {1, 2}
    /\ DOMAIN usuarios = {2}
    /\ usuarios[2].subscription_status = Str("active")

\* C22: when createCheckoutSession stops after customer.New has made a
\* customer and before the reference is stored (the write fails), the row
\* still has an empty customer reference, and the next createCheckoutSession
\* for the user calls customer.New again and stores what it answers; when it
\* stops after the reference was stored (session.New fails), the reference
\* stays stored, and the next createCheckoutSession makes no customer, writes
\* nothing and asks for a session with the stored reference.
C22_CustomerCreationRecovers ==
    (op = "CreateCheckoutSession" /\ err # NoErr /\ Called("customer.New"))
    => \A c \in CustomerIDs, sess \in SessionAnswers :
         LET next == CreateCheckoutSession(usuarios, arg.id, 0,
                                           [ID |-> c, err |-> NoErr], sess)
             ref == usuarios[arg.id].stripe_customer_id.String
         IN  IF ~Called("session.New")
             THEN /\ usuarios = before
                  /\ ref = ""
                  /\ next.calls[2] = "customer.New"
                  /\ next.created = {c}
                  /\ next.db[arg.id].stripe_customer_id = Str(c)
                  /\ next.customer = c
             ELSE /\ ref # ""
                  /\ ref \in stripeCustomers
                  /\ next.calls = <<"GetByID", "session.New">>
                  /\ next.created = {}
                  /\ next.db = usuarios
                  /\ next.customer = ref

\* Stripe has made a customer for a user whose row could not be written:
\* the customer exists and no row holds its reference
C22_Witness ==
    /\ op = "CreateCheckoutSession"
    /\ calls = <<"GetByID", "customer.New", "UpdateSubscriptionDetails">>
    /\ err = ErrStore
    /\ stripeCustomers # {}
    /\ \A i \in DOMAIN usuarios : usuarios[i].stripe_customer_id.String = ""

\* the goroutine p runs the statement at pc in this step
Runs(p, pc) == procs[p].pc = pc /\ procs'[p].pc # pc

\* C23: however the requests interleave, the write of createCheckoutSession
\* leaves the subscription reference, the status and the period end of every
\* row as they were: what a webhook stored since the request read its user
\* is not overwritten.
C23_CheckoutKeepsWebhookState ==
    [][\A p \in Procs :
          Runs(p, "CreateCheckoutSession.UpdateSubscriptionDetails")
          => \A i \in DOMAIN usuarios :
                Subscription(usuarios'[i]) = Subscription(usuarios[i])]_vars

\* C24: however the requests interleave, a customer reference that is not
\* empty is never replaced by another, so that two createCheckoutSession
\* requests for a user without a reference do not overwrite one another's
\* customer.
C24_CustomerReferenceNeverChanges ==
    [][\A i \in DOMAIN usuarios \cap DOMAIN usuarios' :
          usuarios[i].stripe_customer_id.String # ""
          => usuarios'[i].stripe_customer_id.String =
                 usuarios[i].stripe_customer_id.String]_vars

\* C25: however the requests interleave, updateUser and deleteUser return nil
\* only when the row of the identifier was there as their UPDATE or DELETE
\* statement ran.
C25_SuccessOnlyIfRowExisted ==
    [][\A p \in Procs :
          (/\ \/ Runs(p, "UpdateUser.Update")
              \/ Runs(p, "DeleteUser.Delete")
           /\ err' = NoErr)
          => procs[p].id \in DOMAIN usuarios]_vars

\* C26: for every verified event handleProviderWebhook ends with nil or with
\* an error value, also when a "checkout completed" event carries no
\* subscription or no customer object, or a "subscription updated/deleted"
\* event no customer object: no panic leaves the method, and such an event
\* causes no write.
C26_VerifiedWebhookAlwaysReturns ==
    (op = "HandleStripeWebhook" /\ SignedWithSecret)
    => /\ err # Panic
       /\ resp # Response("HandleStripeWebhook", Aborted)
       /\ (/\ arg.payload.Type \in HandledTypes
           /\ (\/ arg.payload.Customer = Nil
               \/ /\ arg.payload.Type = "checkout.session.completed"
                  /\ arg.payload.Subscription = Nil))
          => usuarios = before /\ ~Called("UpdateSubscriptionDetails")

====
